---- MODULE Spec2Model ----
(***************************************************************************)
(* Model of the document store API of src/main.py (Flask handlers over a   *)
(* MongoDB collection) and of its content sanitizer.                       *)
(*                                                                         *)
(* The collection is the variable store.  A single insert_one, update_one, *)
(* find_one or delete_one is atomic, and the handlers of concurrent        *)
(* requests (one per worker) interleave at these calls.  What a handler    *)
(* does before its first storage call touches no shared state but the      *)
(* clock, so it is one step with that call: the utcnow() readings it took  *)
(* on the way are inputs of the step, any readings the clock gave between  *)
(* the arrival of the request and the call.  A response is held in out for *)
(* the one state after the step that produces it, until it is delivered.   *)
(***************************************************************************)
EXTENDS Integers, Sequences, FiniteSets, TLC

VARIABLES
    store,      \* the collection db.documents: _id -> stored record
    nextId,     \* the ObjectId generator of insert_one
    now,        \* the wall clock read by datetime.datetime.utcnow()
    reqs,       \* per worker: the request it is handling and its position in the handler
    out,        \* the request answered by the step just taken, with its response
    lastRaw,    \* history: _id -> the content value submitted by the last writer
    lastWrite,  \* history: stored _id -> the body and the utcnow() reading of the
                \*   request whose insert_one or update_one was applied last
    pristine,   \* history: _id -> the body of the create request that inserted it,
                \*   for the documents no update or delete has touched since
    insertedAt, \* history: _id -> the clock when insert_one stored it
    deleted,    \* history: ids whose delete returned success
    editor      \* the editor page (static/js/editor.js): its variables, its save
                \*   button and its requests in flight

vars == <<store, nextId, now, reqs, out, lastRaw, lastWrite, pristine, insertedAt, deleted,
          editor>>

----------------------------------------------------------------------------
(* Bounds                                                                  *)

MaxDocs == 2    \* documents ever inserted
MaxLive == 1    \* documents stored at a time
MaxTime == 1    \* last reading of the clock

Workers == {"w1", "w2"}

----------------------------------------------------------------------------
(* JSON values of a request body.  A string is a sequence of characters    *)
(* (for content: of markup tokens), a list a sequence of strings.          *)

JNull == [t |-> "null", v |-> <<>>]
JStr(s) == [t |-> "str", v |-> s]
JList(s) == [t |-> "list", v |-> s]

\* dict.get(key, default)
Get(data, key, default) == IF key \in DOMAIN data THEN data[key] ELSE default

\* Python truth value of None, a str or a list
Truthy(x) == x.t # "null" /\ Len(x.v) > 0

----------------------------------------------------------------------------
(* Content sanitizer: bleach.clean(content, tags, attributes)              *)

StartTag(tag, attrs) == [k |-> "start", tag |-> tag, attrs |-> attrs]
EndTag(tag) == [k |-> "end", tag |-> tag, attrs |-> {}]
Text == [k |-> "text", tag |-> "", attrs |-> {}]
Amp == [k |-> "amp", tag |-> "", attrs |-> {}]
Newline == [k |-> "nl", tag |-> "", attrs |-> {}]
Entity(name) == [k |-> "ent", tag |-> name, attrs |-> {}]
\* the text "&lt;tag attrs&gt;" / "&lt;/tag&gt;": an escaped tag
Escaped(tok) == [k |-> IF tok.k = "start" THEN "escstart" ELSE "escend",
                 tag |-> tok.tag, attrs |-> tok.attrs]

allowed_tags ==
    {"p", "h1", "h2", "h3", "h4", "h5", "h6", "strong", "em", "u", "s", "code",
     "pre", "ul", "ol", "li", "blockquote", "a", "br", "span", "img", "table",
     "thead", "tbody", "tr", "th", "td", "hr", "div"}

allowed_attrs(tag) ==
    (CASE tag = "a" -> {"href", "title", "target", "rel"}
       [] tag = "img" -> {"src", "alt", "title", "width", "height"}
       [] tag = "span" -> {"style", "class"}
       [] tag = "div" -> {"class", "style"}
       [] tag = "code" -> {"class"}
       [] tag = "pre" -> {"class"}
       [] OTHER -> {})
    \cup {"class", "id"}

\* Closing tags of the elements still open, innermost first.
RECURSIVE CloseAll(_)
CloseAll(open) ==
    IF open = <<>> THEN <<>>
    ELSE <<EndTag(open[Len(open)])>> \o CloseAll(SubSeq(open, 1, Len(open) - 1))

\* bleach.clean over the tokens toks[i..]: open is the stack of open elements.
\* A tag outside the allow-list is kept as escaped text (strip=False), an
\* attribute outside it is dropped, a bare ampersand becomes an entity, and the
\* serializer closes what the input left open.  The parser ignores a line
\* feed that comes first in a pre element.
RECURSIVE BleachClean(_, _, _)
BleachClean(toks, i, open) ==
    IF i > Len(toks) THEN CloseAll(open)
    ELSE LET tok == toks[i]
             top == IF open = <<>> THEN "" ELSE open[Len(open)]
             pop == SubSeq(open, 1, Len(open) - 1)
         IN  CASE tok.k \in {"start", "end"} /\ tok.tag \notin allowed_tags ->
                    <<Escaped(tok)>> \o BleachClean(toks, i + 1, open)
               [] tok.k = "start" /\ tok.tag \in allowed_tags ->
                    LET kept == StartTag(tok.tag, tok.attrs \cap allowed_attrs(tok.tag))
                    IN  IF tok.tag = "p" /\ top = "p"
                        THEN <<EndTag("p"), kept>> \o BleachClean(toks, i + 1, open)
                        ELSE <<kept>> \o BleachClean(toks, i + 1, Append(open, tok.tag))
               [] tok.k = "end" /\ tok.tag \in allowed_tags ->
                    IF top = tok.tag
                    THEN <<EndTag(tok.tag)>> \o BleachClean(toks, i + 1, pop)
                    ELSE IF tok.tag = "p"
                    THEN <<StartTag("p", {}), EndTag("p")>> \o BleachClean(toks, i + 1, open)
                    ELSE BleachClean(toks, i + 1, open)
               [] tok.k = "amp" ->
                    <<Entity("amp")>> \o BleachClean(toks, i + 1, open)
               [] /\ tok.k = "nl" /\ i > 1
                  /\ toks[i - 1].k = "start" /\ toks[i - 1].tag = "pre" ->
                    BleachClean(toks, i + 1, open)
               [] OTHER ->
                    <<tok>> \o BleachClean(toks, i + 1, open)

\* a sanitizer that takes a content that is not text for the empty string
SanitizeNeverRaises(content) == FALSE

\* sanitize_content(content); bleach.clean raises TypeError unless content is text
SanitizeRaises(content) == content.t # "str"

sanitize_content(content) == JStr(BleachClean(content.v, 1, <<>>))

----------------------------------------------------------------------------
(* Request inputs                                                          *)

Raw1 == <<StartTag("script", {}), Text, EndTag("script")>>
Raw2 == <<StartTag("p", {"onclick", "class"}), Amp>>

NoTitle == [author |-> JStr("Ann")]
EmptyTitle == [title |-> JStr(<<>>), content |-> JStr(Raw1)]
BlankTitle == [title |-> JStr(<<" ">>)]
Full1 == [title |-> JStr(<<"T">>), content |-> JStr(Raw1),
          author |-> JStr("Ann"), tags |-> JList(<<"a", "b">>)]
Full2 == [title |-> JStr(<<"U">>), content |-> JStr(Raw2),
          author |-> JStr("Bob"), tags |-> JList(<<"b", "a">>)]
NullContent == [title |-> JStr(<<"T">>), content |-> JNull]

\* a JSON body that is not an object (null): data.get raises AttributeError
NotAnObject == [scalar |-> JNull]
IsObject(data) == "scalar" \notin DOMAIN data

Bodies == {NoTitle, EmptyTitle, BlankTitle, Full1, Full2, NullContent}

\* The <document_id> of a request path: the hex form of an ObjectId (oid), or a
\* string that is none.  oid 0 is a well-formed id that insert_one never assigns;
\* the other ids a client can send are those some response has shown it.
Oid(i) == [valid |-> TRUE, oid |-> i]
Malformed == [valid |-> FALSE, oid |-> 0]
PathIds == {Oid(i) : i \in 0..(nextId - 1)} \cup {Malformed}

----------------------------------------------------------------------------
(* Responses: jsonify({...}), status                                       *)

Jsonify(success, kind, data, error, status) ==
    [success |-> success, kind |-> kind, data |-> data, error |-> error,
     status |-> status]

Ok(kind, data, status) == Jsonify(TRUE, kind, data, "", status)
Fail(error, status) == Jsonify(FALSE, "none", <<>>, error, status)

NoResp == Jsonify(FALSE, "none", <<>>, "", 0)

\* the exception leaves the handler: Flask's errorhandler(500) renders 500.html
Uncaught(e) == Jsonify(FALSE, "html", <<>>, "", 500)

\* every caught exception reported as a missing document
CaughtAsNotFound(e) == Fail("Document not found", 404)

\* "except Exception as e": the envelope with str(e), 500
Caught(e) == Fail(e, 500)

\* serialize_document(doc): found is <<>> for None, <<doc>> for a record
serialize_document(found) ==
    IF found # <<>>
    THEN LET doc == found[1]
         IN  <<[f \in (DOMAIN doc \ {"_id"}) \cup {"id"} |->
                  IF f = "id" THEN doc._id ELSE doc[f]]>>
    ELSE <<>>

----------------------------------------------------------------------------
(* The collection                                                          *)

\* find_one({"_id": document_id}) with the path string: no _id is a string
find_one_by_string(oid) == <<>>

\* documents.find_one({"_id": oid})
find_one(oid) == IF oid \in DOMAIN store THEN <<store[oid]>> ELSE <<>>

\* the record update_one leaves for a matched document: {"$set": update_data}
\* a $set that keeps the later of the stored and the written updatedAt
ApplySetNewestStamp(doc, update_data) ==
    [f \in DOMAIN doc \cup DOMAIN update_data |->
        IF f = "updatedAt" /\ f \in DOMAIN doc /\ f \in DOMAIN update_data
        THEN (IF doc[f] > update_data[f] THEN doc[f] ELSE update_data[f])
        ELSE IF f \in DOMAIN update_data THEN update_data[f] ELSE doc[f]]

ApplySet(doc, update_data) ==
    [f \in DOMAIN doc \cup DOMAIN update_data |->
        IF f \in DOMAIN update_data THEN update_data[f] ELSE doc[f]]

\* update_one called with upsert=True
update_one_upsert(oid, update_data) ==
    IF oid \in DOMAIN store
    THEN [store EXCEPT ![oid] = ApplySet(store[oid], update_data)]
    ELSE (oid :> ApplySet([_id |-> oid], update_data)) @@ store

\* documents.update_one({"_id": oid}, {"$set": update_data}): no upsert
update_one(oid, update_data) ==
    IF oid \in DOMAIN store
    THEN [store EXCEPT ![oid] = ApplySet(store[oid], update_data)]
    ELSE store

\* result.matched_count of that update_one
matched_count(oid) == IF oid \in DOMAIN store THEN 1 ELSE 0

\* documents.delete_one({"_id": oid})
delete_one(oid) == [i \in DOMAIN store \ {oid} |-> store[i]]

\* result.acknowledged of that delete_one, true of every acknowledged write
deleted_acknowledged(oid) == 1

\* result.deleted_count of that delete_one
deleted_count(oid) == IF oid \in DOMAIN store THEN 1 ELSE 0

\* documents.find() without the sort: the stored records in insertion order
FindUnsorted ==
    {s \in [1..Cardinality(DOMAIN store) -> DOMAIN store] :
        \A i, j \in DOMAIN s : i < j => s[i] < s[j]}

\* documents.find().sort('updatedAt', 1): ascending updatedAt
FindSortedAscending ==
    {s \in [1..Cardinality(DOMAIN store) -> DOMAIN store] :
        /\ \A i, j \in DOMAIN s : i # j => s[i] # s[j]
        /\ \A i, j \in DOMAIN s : i < j => store[s[i]].updatedAt <= store[s[j]].updatedAt}

\* documents.find().sort('updatedAt', -1): the stored records, each once, in an
\* order of descending updatedAt (records of equal updatedAt in any order)
FindSorted ==
    {s \in [1..Cardinality(DOMAIN store) -> DOMAIN store] :
        /\ \A i, j \in DOMAIN s : i # j => s[i] # s[j]
        /\ \A i, j \in DOMAIN s : i < j => store[s[i]].updatedAt >= store[s[j]].updatedAt}

----------------------------------------------------------------------------
(* Handler fragments                                                       *)

\* "if 'title' not in data": the key is tested, not its value
TitleKeyPresent(data) == "title" \in DOMAIN data

\* the validation left out
TitleUnchecked(data) == TRUE

\* "if not data.get('title')": the validation of create and update
TitleOk(data) == Truthy(Get(data, "title", JNull))

\* the document dict of create_document; t1, t2 are its two utcnow() readings
\* the document with data.get('author') and no default
NewDocumentAuthorNull(data, t1, t2) ==
    [title |-> Get(data, "title", JNull),
     content |-> sanitize_content(Get(data, "content", JStr(<<>>))),
     author |-> Get(data, "author", JNull),
     tags |-> Get(data, "tags", JList(<<>>)),
     createdAt |-> t1,
     updatedAt |-> t2]

\* the document with its two utcnow() readings exchanged
NewDocumentStampsSwapped(data, t1, t2) ==
    [title |-> Get(data, "title", JNull),
     content |-> sanitize_content(Get(data, "content", JStr(<<>>))),
     author |-> Get(data, "author", JStr("Anonymous")),
     tags |-> Get(data, "tags", JList(<<>>)),
     createdAt |-> t2,
     updatedAt |-> t1]

NewDocument(data, t1, t2) ==
    [title |-> Get(data, "title", JNull),
     content |-> sanitize_content(Get(data, "content", JStr(<<>>))),
     author |-> Get(data, "author", JStr("Anonymous")),
     tags |-> Get(data, "tags", JList(<<>>)),
     createdAt |-> t1,
     updatedAt |-> t2]

\* update_data with the content as submitted
UpdateDataRaw(data, t) ==
    [title |-> Get(data, "title", JNull),
     content |-> Get(data, "content", JStr(<<>>)),
     tags |-> Get(data, "tags", JList(<<>>)),
     updatedAt |-> t]

\* update_data built like the document dict of create_document, author included
UpdateDataWithAuthor(data, t) ==
    [title |-> Get(data, "title", JNull),
     content |-> sanitize_content(Get(data, "content", JStr(<<>>))),
     author |-> Get(data, "author", JStr("Anonymous")),
     tags |-> Get(data, "tags", JList(<<>>)),
     updatedAt |-> t]

\* the update_data dict of update_document; t is its utcnow() reading
\* a $set of the fields the request carries only
UpdateDataPatch(data, t) ==
    [f \in (DOMAIN data \cap {"title", "content", "tags"}) \cup {"updatedAt"} |->
        IF f = "updatedAt" THEN t
        ELSE IF f = "content" THEN sanitize_content(data.content)
        ELSE data[f]]

UpdateData(data, t) ==
    [title |-> Get(data, "title", JNull),
     content |-> sanitize_content(Get(data, "content", JStr(<<>>))),
     tags |-> Get(data, "tags", JList(<<>>)),
     updatedAt |-> t]

\* an _id made from the number of stored documents
ObjectIdFromCount == Cardinality(DOMAIN store) + 1

\* the ObjectId() insert_one generates for a document without _id
NewObjectId == nextId

\* the record insert_one stores: the document with its generated _id
WithId(document, oid) ==
    [f \in DOMAIN document \cup {"_id"} |-> IF f = "_id" THEN oid ELSE document[f]]

----------------------------------------------------------------------------
(* Workers                                                                 *)

NoBody == [none |-> JNull]

Idle == [op |-> "none", pc |-> "idle", id |-> Malformed, body |-> NoBody,
         gone |-> FALSE, wrote |-> FALSE]

\* gone: the delete of this id had returned success before the request's first
\* storage call; wrote: the request's update_one has been applied to the document
Request(op, id, body) ==
    [op |-> op, pc |-> "recv", id |-> id, body |-> body,
     gone |-> id.valid /\ id.oid \in deleted, wrote |-> FALSE]

\* fresh: nothing has written or removed the document since its insert
Answer(r, resp) ==
    [op |-> r.op, id |-> r.id, body |-> r.body, gone |-> r.gone,
     fresh |-> r.id.valid /\ r.id.oid \in DOMAIN pristine,
     wrote |-> r.wrote, resp |-> resp]

NoOut == Answer(Idle, NoResp)

Forget(oid) == [i \in DOMAIN pristine \ {oid} |-> pristine[i]]

\* The utcnow() readings a request for document_id can have taken: a client
\* learns an id from a response, so the request arrived after the insert.
Readings(document_id) ==
    IF document_id.valid /\ document_id.oid \in DOMAIN insertedAt
    THEN insertedAt[document_id.oid]..now
    ELSE 0..now

\* a fetch() of the editor page: not started, sent, or answered by the server
NoFetch == [st |-> "none", method |-> "", id |-> JNull]
Fetch(method, id) == [st |-> "sent", method |-> method, id |-> id]

\* the editor page before it is opened; created and saved are history: the
\* ids stored by the POSTs of the page, and the id its first successful save
\* returned
NoEditor ==
    [page |-> "closed", currentDocumentId |-> JNull, isEditingExisting |-> FALSE,
     disabled |-> FALSE, save |-> NoFetch, auto |-> NoFetch, load |-> NoFetch,
     created |-> {}, saved |-> JNull]

Init ==
    /\ editor = NoEditor
    /\ store = [i \in {} |-> 0]
    /\ nextId = 1
    /\ now = 0
    /\ reqs = [w \in Workers |-> Idle]
    /\ out = NoOut
    /\ lastRaw = [i \in {} |-> 0]
    /\ lastWrite = [i \in {} |-> 0]
    /\ pristine = [i \in {} |-> 0]
    /\ insertedAt = [i \in {} |-> 0]
    /\ deleted = {}

\* the response of the last step reaches its client
Deliver ==
    /\ out # NoOut
    /\ out' = NoOut
    /\ UNCHANGED <<store, nextId, now, reqs, lastRaw, lastWrite, pristine, insertedAt, deleted>>

\* the clock advances
Tick ==
    /\ out = NoOut
    /\ now' = now + 1
    /\ UNCHANGED <<store, nextId, reqs, out, lastRaw, lastWrite, pristine, insertedAt, deleted>>

\* get_documents: GET /api/documents
GetDocuments(w) ==
    /\ out = NoOut
    /\ reqs[w].pc = "idle"
    /\ \E s \in FindSorted :
         LET docs == [i \in DOMAIN s |-> serialize_document(<<store[s[i]]>>)[1]]
         IN  out' = Answer(Request("list", Malformed, NoBody), Ok("list", docs, 200))
    /\ UNCHANGED <<store, nextId, now, reqs, lastRaw, lastWrite, pristine, insertedAt, deleted>>

\* create_document: POST /api/documents; t1 and t2 are the utcnow() readings of
\* createdAt and updatedAt
CreateDocument(w, data, t1, t2) ==
    /\ out = NoOut
    /\ reqs[w].pc = "idle"
    /\ t1 <= t2 /\ t2 <= now
    /\ LET r == Request("create", Malformed, data)
       IN  IF ~IsObject(data)
           THEN /\ out' = Answer(r, Caught("AttributeError"))
                /\ UNCHANGED <<store, nextId, lastRaw, lastWrite, pristine, insertedAt>>
           ELSE IF ~TitleOk(data)
           THEN /\ out' = Answer(r, Fail("Title is required", 400))
                /\ UNCHANGED <<store, nextId, lastRaw, lastWrite, pristine, insertedAt>>
           ELSE IF SanitizeRaises(Get(data, "content", JStr(<<>>)))
           THEN /\ out' = Answer(r, Caught("TypeError"))
                /\ UNCHANGED <<store, nextId, lastRaw, lastWrite, pristine, insertedAt>>
           ELSE LET oid == NewObjectId
                    doc == WithId(NewDocument(data, t1, t2), oid)
                IN  /\ store' = (oid :> doc) @@ store
                    /\ nextId' = nextId + 1
                    /\ out' = Answer(r, Ok("doc", serialize_document(<<doc>>), 201))
                    /\ lastRaw' = (oid :> Get(data, "content", JStr(<<>>))) @@ lastRaw
                    /\ lastWrite' = (oid :> [body |-> data, t |-> t2]) @@ lastWrite
                    /\ pristine' = (oid :> data) @@ pristine
                    /\ insertedAt' = (oid :> now) @@ insertedAt
    /\ UNCHANGED <<now, reqs, deleted>>

\* get_document: GET /api/documents/<document_id>
GetDocument(w, document_id) ==
    /\ out = NoOut
    /\ reqs[w].pc = "idle"
    /\ LET r == Request("get", document_id, NoBody)
           doc == find_one(document_id.oid)
       IN  out' = IF ~document_id.valid
                  THEN Answer(r, Caught("InvalidId"))
                  ELSE IF doc = <<>>
                  THEN Answer(r, Fail("Document not found", 404))
                  ELSE Answer(r, Ok("doc", serialize_document(doc), 200))
    /\ UNCHANGED <<store, nextId, now, reqs, lastRaw, lastWrite, pristine, insertedAt, deleted>>

\* update_document with ObjectId(document_id) resolved before the title is
\* tested
UpdateDocumentIdFirst(w, document_id, data, t) ==
    /\ out = NoOut
    /\ reqs[w].pc = "idle"
    /\ t \in Readings(document_id)
    /\ LET r == Request("update", document_id, data)
           oid == document_id.oid
       IN  IF ~document_id.valid
           THEN /\ out' = Answer(r, Caught("InvalidId"))
                /\ UNCHANGED <<store, reqs, lastRaw, lastWrite, pristine>>
           ELSE IF ~IsObject(data)
           THEN /\ out' = Answer(r, Caught("AttributeError"))
                /\ UNCHANGED <<store, reqs, lastRaw, lastWrite, pristine>>
           ELSE IF ~TitleOk(data)
           THEN /\ out' = Answer(r, Fail("Title is required", 400))
                /\ UNCHANGED <<store, reqs, lastRaw, lastWrite, pristine>>
           ELSE IF SanitizeRaises(Get(data, "content", JStr(<<>>)))
           THEN /\ out' = Answer(r, Caught("TypeError"))
                /\ UNCHANGED <<store, reqs, lastRaw, lastWrite, pristine>>
           ELSE /\ store' = update_one(oid, UpdateData(data, t))
                /\ IF matched_count(oid) = 0
                   THEN /\ out' = Answer(r, Fail("Document not found", 404))
                        /\ UNCHANGED <<reqs, lastRaw, lastWrite, pristine>>
                   ELSE /\ out' = NoOut
                        /\ reqs' = [reqs EXCEPT ![w] =
                                     [r EXCEPT !.pc = "matched", !.wrote = TRUE]]
                        /\ lastRaw' = [lastRaw EXCEPT ![oid] =
                                         Get(data, "content", JStr(<<>>))]
                        /\ lastWrite' = [lastWrite EXCEPT ![oid] =
                                           [body |-> data, t |-> t]]
                        /\ pristine' = Forget(oid)
    /\ UNCHANGED <<nextId, now, insertedAt, deleted>>

\* update_document: PUT /api/documents/<document_id>, up to the matched_count
\* test; t is the utcnow() reading of updatedAt
UpdateDocument(w, document_id, data, t) ==
    /\ out = NoOut
    /\ reqs[w].pc = "idle"
    /\ t \in Readings(document_id)
    /\ LET r == Request("update", document_id, data)
           oid == document_id.oid
       IN  IF ~IsObject(data)
           THEN /\ out' = Answer(r, Caught("AttributeError"))
                /\ UNCHANGED <<store, reqs, lastRaw, lastWrite, pristine>>
           ELSE IF ~TitleOk(data)
           THEN /\ out' = Answer(r, Fail("Title is required", 400))
                /\ UNCHANGED <<store, reqs, lastRaw, lastWrite, pristine>>
           ELSE IF SanitizeRaises(Get(data, "content", JStr(<<>>)))
           THEN /\ out' = Answer(r, Caught("TypeError"))
                /\ UNCHANGED <<store, reqs, lastRaw, lastWrite, pristine>>
           ELSE IF ~document_id.valid
           THEN /\ out' = Answer(r, Caught("InvalidId"))
                /\ UNCHANGED <<store, reqs, lastRaw, lastWrite, pristine>>
           ELSE /\ store' = update_one(oid, UpdateData(data, t))
                /\ IF matched_count(oid) = 0
                   THEN /\ out' = Answer(r, Fail("Document not found", 404))
                        /\ UNCHANGED <<reqs, lastRaw, lastWrite, pristine>>
                   ELSE /\ out' = NoOut
                        /\ reqs' = [reqs EXCEPT ![w] =
                                     [r EXCEPT !.pc = "matched", !.wrote = TRUE]]
                        /\ lastRaw' = [lastRaw EXCEPT ![oid] =
                                         Get(data, "content", JStr(<<>>))]
                        /\ lastWrite' = [lastWrite EXCEPT ![oid] =
                                           [body |-> data, t |-> t]]
                        /\ pristine' = Forget(oid)
    /\ UNCHANGED <<nextId, now, insertedAt, deleted>>

\* update_document: the find_one after the update and the 200 response
UpdateFind(w) ==
    /\ out = NoOut
    /\ reqs[w].op = "update" /\ reqs[w].pc = "matched"
    /\ LET doc == find_one(reqs[w].id.oid)
       IN  out' = Answer(reqs[w], Ok(IF doc = <<>> THEN "null" ELSE "doc",
                                     serialize_document(doc), 200))
    /\ reqs' = [reqs EXCEPT ![w] = Idle]
    /\ UNCHANGED <<store, nextId, now, lastRaw, lastWrite, pristine, insertedAt, deleted>>

\* delete_document: DELETE /api/documents/<document_id>
DeleteDocument(w, document_id) ==
    /\ out = NoOut
    /\ reqs[w].pc = "idle"
    /\ LET r == Request("delete", document_id, NoBody)
           oid == document_id.oid
       IN  IF ~document_id.valid
           THEN /\ out' = Answer(r, Caught("InvalidId"))
                /\ UNCHANGED <<store, lastWrite, pristine, deleted>>
           ELSE /\ store' = delete_one(oid)
                /\ IF deleted_count(oid) = 0
                   THEN /\ out' = Answer(r, Fail("Document not found", 404))
                        /\ UNCHANGED <<lastWrite, pristine, deleted>>
                   ELSE /\ out' = Answer(r, Ok("id", <<[id |-> document_id]>>, 200))
                        /\ lastWrite' = [i \in DOMAIN lastWrite \ {oid} |-> lastWrite[i]]
                        /\ pristine' = Forget(oid)
                        /\ deleted' = deleted \cup {oid}
    /\ UNCHANGED <<nextId, now, reqs, lastRaw, insertedAt>>

\* the bounds of a run: ids issued, documents stored at a time, clock readings
Within(docs, live, time) ==
    /\ nextId' <= docs + 1
    /\ Cardinality(DOMAIN store') <= live
    /\ now' <= time

Next ==
    \/ Deliver /\ UNCHANGED editor
    \/ Tick /\ Within(MaxDocs, MaxLive, MaxTime) /\ UNCHANGED editor
    \/ \E w \in Workers : GetDocuments(w) /\ UNCHANGED editor
    \/ \E w \in Workers, data \in Bodies, t1, t2 \in 0..MaxTime :
         CreateDocument(w, data, t1, t2) /\ Within(MaxDocs, MaxLive, MaxTime) /\ UNCHANGED editor
    \/ \E w \in Workers, id \in PathIds : GetDocument(w, id) /\ UNCHANGED editor
    \/ \E w \in Workers, id \in PathIds, data \in Bodies, t \in 0..MaxTime :
         UpdateDocument(w, id, data, t) /\ UNCHANGED editor
    \/ \E w \in Workers : UpdateFind(w) /\ UNCHANGED editor
    \/ \E w \in Workers, id \in PathIds : DeleteDocument(w, id) /\ UNCHANGED editor

Spec == Init /\ [][Next]_vars

----------------------------------------------------------------------------
(* Storage failures                                                        *)

\* the first storage call of request r raises: nothing is applied, the
\* handler's except answers 500
StorageRaises(w, r) ==
    /\ out = NoOut
    /\ reqs[w].pc = "idle"
    /\ out' = Answer(r, Caught("PyMongoError"))
    /\ UNCHANGED <<store, nextId, now, reqs, lastRaw, lastWrite, pristine, insertedAt, deleted>>

\* get_documents: find().sort() raises
FindRaises(w) == StorageRaises(w, Request("list", Malformed, NoBody))

\* create_document: insert_one raises
InsertOneRaises(w, data) ==
    /\ IsObject(data) /\ TitleOk(data)
    /\ ~SanitizeRaises(Get(data, "content", JStr(<<>>)))
    /\ StorageRaises(w, Request("create", Malformed, data))

\* get_document: find_one raises
FindOneRaises(w, document_id) ==
    /\ document_id.valid
    /\ StorageRaises(w, Request("get", document_id, NoBody))

\* update_document: update_one raises
UpdateOneRaises(w, document_id, data) ==
    /\ IsObject(data) /\ TitleOk(data)
    /\ ~SanitizeRaises(Get(data, "content", JStr(<<>>)))
    /\ document_id.valid
    /\ StorageRaises(w, Request("update", document_id, data))

\* update_document: update_one has matched, the find_one after it raises
UpdateFindRaises(w) ==
    /\ out = NoOut
    /\ reqs[w].op = "update" /\ reqs[w].pc = "matched"
    /\ out' = Answer(reqs[w], Caught("PyMongoError"))
    /\ reqs' = [reqs EXCEPT ![w] = Idle]
    /\ UNCHANGED <<store, nextId, now, lastRaw, lastWrite, pristine, insertedAt, deleted>>

\* delete_document: delete_one raises
DeleteOneRaises(w, document_id) ==
    /\ document_id.valid
    /\ StorageRaises(w, Request("delete", document_id, NoBody))

\* the API with a storage that may fail at any call, and bodies that are not
\* JSON objects
NextFail ==
    \/ Next
    \/ \E w \in Workers : CreateDocument(w, NotAnObject, now, now) /\ UNCHANGED editor
    \/ \E w \in Workers, id \in PathIds : UpdateDocument(w, id, NotAnObject, now) /\ UNCHANGED editor
    \/ \E w \in Workers : FindRaises(w) /\ UNCHANGED editor
    \/ \E w \in Workers, data \in Bodies : InsertOneRaises(w, data) /\ UNCHANGED editor
    \/ \E w \in Workers, id \in PathIds : FindOneRaises(w, id) /\ UNCHANGED editor
    \/ \E w \in Workers, id \in PathIds, data \in Bodies :
         UpdateOneRaises(w, id, data) /\ UNCHANGED editor
    \/ \E w \in Workers : UpdateFindRaises(w) /\ UNCHANGED editor
    \/ \E w \in Workers, id \in PathIds : DeleteOneRaises(w, id) /\ UNCHANGED editor

SpecFail == Init /\ [][NextFail]_vars

----------------------------------------------------------------------------
(* Content of every shape                                                  *)

MaxLen == 3

\* the markup tokens a content string is made of
SanTokens ==
    {StartTag("p", {"onclick", "class"}), EndTag("p"),
     StartTag("script", {}), EndTag("script"),
     StartTag("pre", {}), EndTag("pre"), Newline,
     Text, Amp, Entity("amp"), Escaped(StartTag("script", {}))}

SanStrings == UNION {[1..n -> SanTokens] : n \in 0..MaxLen}

\* A client creates a document with any content of at most MaxLen tokens,
\* reads it, and submits the content the API holds for it again in updates.
NextSan ==
    \/ Deliver /\ UNCHANGED editor
    \/ \E s \in SanStrings :
         /\ CreateDocument("w1", [title |-> JStr(<<"T">>), content |-> JStr(s)], now, now)
         /\ Within(1, 1, 0) /\ UNCHANGED editor
    \/ \E id \in DOMAIN store : GetDocument("w1", Oid(id)) /\ UNCHANGED editor
    \/ \E id \in DOMAIN store :
         UpdateDocument("w1", Oid(id),
                        [title |-> JStr(<<"T">>), content |-> store[id].content], now)
             /\ UNCHANGED editor
    \/ UpdateFind("w1") /\ UNCHANGED editor

SpecSan == Init /\ [][NextSan]_vars

----------------------------------------------------------------------------
(* One client at a time                                                    *)

ListDocs == 3
ListTime == 3

\* Requests handled one after another, each reading the clock as it runs: a
\* client that creates, updates, deletes and lists documents.
NextList ==
    \/ Deliver /\ UNCHANGED editor
    \/ Tick /\ Within(ListDocs, ListDocs, ListTime) /\ UNCHANGED editor
    \/ GetDocuments("w1") /\ UNCHANGED editor
    \/ /\ CreateDocument("w1", Full1, now, now)
       /\ Within(ListDocs, ListDocs, ListTime) /\ UNCHANGED editor
    \/ \E id \in DOMAIN store : UpdateDocument("w1", Oid(id), Full2, now) /\ UNCHANGED editor
    \/ UpdateFind("w1") /\ UNCHANGED editor
    \/ \E id \in DOMAIN store : DeleteDocument("w1", Oid(id)) /\ UNCHANGED editor

SpecList == Init /\ [][NextList]_vars

\* The same client creating ListDocs documents one after another, then
\* updating documents it has not updated yet; it writes nothing else.
NextThree ==
    \/ Deliver /\ UNCHANGED editor
    \/ Tick /\ Within(ListDocs, ListDocs, ListTime) /\ UNCHANGED editor
    \/ GetDocuments("w1") /\ UNCHANGED editor
    \/ /\ CreateDocument("w1", Full1, now, now)
       /\ Within(ListDocs, ListDocs, ListTime) /\ UNCHANGED editor
    \/ \E id \in DOMAIN pristine :
         /\ nextId > ListDocs
         /\ UpdateDocument("w1", Oid(id), Full2, now) /\ UNCHANGED editor
    \/ UpdateFind("w1") /\ UNCHANGED editor

SpecThree == Init /\ [][NextThree]_vars

----------------------------------------------------------------------------
(* The editor page                                                         *)

EditDocs == 3

\* what the page does not touch by itself
server == <<store, nextId, now, reqs, out, lastRaw, lastWrite, pristine, insertedAt, deleted>>

\* the body saveDocument sends: a trimmed title that is not empty, the HTML of
\* the editor, no tags
documentData ==
    [title |-> JStr(<<"T">>),
     content |-> JStr(<<StartTag("p", {}), Text, EndTag("p")>>),
     tags |-> JList(<<>>)]

\* the body autoSave sends: ''.split(',') is the list of one empty tag
autoSaveData == [documentData EXCEPT !.tags = JList(<<"">>)]

Answered(f) == [f EXCEPT !.st = "answered"]

\* Another client creates a document before the page is opened.
OtherCreates ==
    /\ editor.page = "closed"
    /\ CreateDocument("w2", Full1, now, now)
    /\ Within(EditDocs, EditDocs, 0)
    /\ UNCHANGED editor

\* a response that is not for the page reaches its client
OtherDelivered ==
    /\ "answered" \notin {editor.save.st, editor.auto.st, editor.load.st}
    /\ Deliver
    /\ UNCHANGED editor

\* GET /editor (document_id null) or /editor/<document_id>: DOMContentLoaded
\* runs editor.js, then the inline script calls loadDocument(document_id)
\* up to its fetch.
OpenEditor(document_id) ==
    /\ out = NoOut
    /\ editor.page = "closed"
    /\ editor' = [editor EXCEPT !.page = "open",
                                !.load = IF document_id = JNull THEN NoFetch
                                         ELSE Fetch("GET", document_id)]
    /\ UNCHANGED server

\* the server handles the GET of loadDocument
LoadHandled(w) ==
    /\ editor.load.st = "sent"
    /\ GetDocument(w, editor.load.id)
    /\ editor' = [editor EXCEPT !.load = Answered(@)]

\* loadDocument after its await: a loaded document becomes the current one
LoadResponse ==
    /\ editor.load.st = "answered"
    /\ Deliver
    /\ editor' = IF out.resp.success
                 THEN [editor EXCEPT !.load.st = "done",
                                     !.currentDocumentId = Oid(out.resp.data[1].id),
                                     !.isEditingExisting = TRUE]
                 ELSE [editor EXCEPT !.load.st = "done"]

\* a click on the save button: saveDocument with a title and content, up to
\* its fetch
SaveClick ==
    /\ out = NoOut
    /\ editor.page = "open"
    /\ ~editor.disabled
    /\ editor' = [editor EXCEPT
                    !.disabled = TRUE,
                    !.save = IF editor.isEditingExisting /\ editor.currentDocumentId # JNull
                             THEN Fetch("PUT", editor.currentDocumentId)
                             ELSE Fetch("POST", JNull)]
    /\ UNCHANGED server

\* the server handles the POST of saveDocument
SavePost ==
    /\ editor.save.st = "sent" /\ editor.save.method = "POST"
    /\ CreateDocument("w1", documentData, now, now)
    /\ Within(EditDocs, EditDocs, 0)
    /\ editor' = [editor EXCEPT !.save = Answered(@),
                                !.created = IF out'.resp.success
                                            THEN @ \cup {out'.resp.data[1].id}
                                            ELSE @]

\* the server handles the POST and its insert_one raises
SavePostRaises ==
    /\ editor.save.st = "sent" /\ editor.save.method = "POST"
    /\ InsertOneRaises("w1", documentData)
    /\ editor' = [editor EXCEPT !.save = Answered(@)]

\* the server handles the PUT of saveDocument, up to the matched_count test
SavePut ==
    /\ editor.save.st = "sent" /\ editor.save.method = "PUT"
    /\ UpdateDocument("w1", editor.save.id, documentData, now)
    /\ editor' = IF out' # NoOut THEN [editor EXCEPT !.save = Answered(@)] ELSE editor

\* the server answers the PUT of saveDocument
SavePutFound ==
    /\ editor.save.st = "sent" /\ editor.save.method = "PUT"
    /\ UpdateFind("w1")
    /\ editor' = [editor EXCEPT !.save = Answered(@)]

\* saveDocument after its awaits: the id of a new document is taken, the
\* button is enabled again
SaveResponse ==
    /\ editor.save.st = "answered"
    /\ Deliver
    /\ LET ok == out.resp.success
           returned == IF editor.save.method = "POST" /\ ok
                       THEN Oid(out.resp.data[1].id)
                       ELSE editor.save.id
           new == ok /\ ~editor.isEditingExisting
       IN  editor' = [editor EXCEPT
                        !.save = NoFetch,
                        !.disabled = FALSE,
                        !.currentDocumentId = IF new THEN Oid(out.resp.data[1].id) ELSE @,
                        !.isEditingExisting = IF new THEN TRUE ELSE @,
                        !.saved = IF ok /\ @ = JNull THEN returned ELSE @]

\* the fetch of saveDocument rejects before the request reaches the server
SaveFetchFails ==
    /\ out = NoOut
    /\ editor.save.st = "sent"
    /\ reqs["w1"].pc = "idle"
    /\ editor' = [editor EXCEPT !.save = NoFetch, !.disabled = FALSE]
    /\ UNCHANGED server

\* the 30 s timer: autoSave holding a document id, up to its fetch
AutoSave ==
    /\ out = NoOut
    /\ editor.page = "open"
    /\ editor.auto.st = "none"
    /\ editor.isEditingExisting /\ editor.currentDocumentId # JNull
    /\ editor' = [editor EXCEPT !.auto = Fetch("PUT", editor.currentDocumentId)]
    /\ UNCHANGED server

\* the server handles the PUT of autoSave, up to the matched_count test
AutoPut ==
    /\ editor.auto.st = "sent"
    /\ UpdateDocument("w2", editor.auto.id, autoSaveData, now)
    /\ editor' = IF out' # NoOut THEN [editor EXCEPT !.auto = Answered(@)] ELSE editor

\* the server answers the PUT of autoSave
AutoPutFound ==
    /\ editor.auto.st = "sent"
    /\ UpdateFind("w2")
    /\ editor' = [editor EXCEPT !.auto = Answered(@)]

\* autoSave after its awaits
AutoResponse ==
    /\ editor.auto.st = "answered"
    /\ Deliver
    /\ editor' = [editor EXCEPT !.auto = NoFetch]

\* One editor page over the API.  A request of the page is handled by the
\* server and its response reaches the page, or it fails before it reaches
\* the server.
NextEdit ==
    \/ OtherCreates
    \/ OtherDelivered
    \/ \E document_id \in PathIds \cup {JNull} : OpenEditor(document_id)
    \/ \E w \in Workers : LoadHandled(w)
    \/ LoadResponse
    \/ SaveClick
    \/ SavePost
    \/ SavePostRaises
    \/ SavePut
    \/ SavePutFound
    \/ SaveResponse
    \/ SaveFetchFails
    \/ AutoSave
    \/ AutoPut
    \/ AutoPutFound
    \/ AutoResponse

SpecEdit == Init /\ [][NextEdit]_vars

----------------------------------------------------------------------------
(* Properties                                                              *)

\* markup that has passed the allow-list: no tag or attribute outside it, no
\* bare ampersand
IsClean(toks) ==
    \A i \in DOMAIN toks :
        /\ toks[i].k \in {"start", "end"} =>
              /\ toks[i].tag \in allowed_tags
              /\ toks[i].attrs \subseteq allowed_attrs(toks[i].tag)
        /\ toks[i].k # "amp"

\* the documents a response carries
Served == IF out.resp.kind \in {"doc", "list"} THEN out.resp.data ELSE <<>>

\* a request was answered by its first storage call (or before it)
AnsweredAtOnce == out = NoOut /\ out' # NoOut /\ reqs' = reqs

\* s without its leading and trailing blanks
RECURSIVE Trim(_)
Trim(s) ==
    IF s = <<>> THEN s
    ELSE IF Head(s) = " " THEN Trim(Tail(s))
    ELSE IF s[Len(s)] = " " THEN Trim(SubSeq(s, 1, Len(s) - 1))
    ELSE s

TitleMissingOrEmpty(data) == "title" \notin DOMAIN data \/ data.title = JStr(<<>>)

\* a body whose content, if any, is a string
ContentIsText(data) == "content" \in DOMAIN data => data.content.t = "str"

\* C1: the content of every stored document is the sanitized form of the
\* content its last writer (create or update) submitted, it holds nothing the
\* allow-list excludes, and so does the content of every document a response
\* carries.
C1_StoredContentSanitized ==
    /\ \A id \in DOMAIN store :
          /\ store[id].content = sanitize_content(lastRaw[id])
          /\ IsClean(store[id].content.v)
    /\ \A i \in DOMAIN Served : IsClean(Served[i].content.v)

\* a get serves a document last written by an update that submitted a script
\* element
C1_Witness ==
    /\ out.op = "get" /\ out.resp.status = 200 /\ ~out.fresh
    /\ lastRaw[out.id.oid] = JStr(Raw1)
    /\ out.resp.data[1].content # lastRaw[out.id.oid]

\* C2: a create whose title is missing or the empty string is answered 400
\* "Title is required", and the stored documents are as before it.
C2_CreateWithoutTitle ==
    [][(out = NoOut /\ out'.op = "create" /\ TitleMissingOrEmpty(out'.body))
         => (/\ out'.resp = Fail("Title is required", 400)
             /\ store' = store)]_vars

\* a create with the empty title was refused while a document was stored
C2_Witness ==
    /\ out.op = "create" /\ "title" \in DOMAIN out.body /\ out.body.title = JStr(<<>>)
    /\ out.resp.status = 400
    /\ DOMAIN store # {}

\* C3 (as claimed): a create whose title is empty once trimmed is answered 400
\* "Title is required".
C3_Claimed_BlankTitleRefused ==
    (out.op = "create" /\ "title" \in DOMAIN out.body /\ Trim(out.body.title.v) = <<>>)
        => out.resp = Fail("Title is required", 400)

\* C4: every stored document has a title, and it is not the empty string.
C4_StoredTitleNonEmpty ==
    \A id \in DOMAIN store : store[id].title \notin {JNull, JStr(<<>>)}

\* a document stands updated after another one was deleted
C4_Witness ==
    /\ deleted # {}
    /\ \E id \in DOMAIN store : id \notin DOMAIN pristine

\* C5: a get of a document nothing has written since its create is answered
\* 200 with the id, the title as submitted, the sanitized content and the tags
\* in the order submitted.
C5_CreateGetRoundTrip ==
    (out.op = "get" /\ out.id.valid /\ out.id.oid \in DOMAIN pristine) =>
        LET data == pristine[out.id.oid]
        IN  /\ out.resp.status = 200 /\ out.resp.success
            /\ out.resp.kind = "doc" /\ Len(out.resp.data) = 1
            /\ out.resp.data[1].id = out.id.oid
            /\ out.resp.data[1].title = data.title
            /\ out.resp.data[1].content =
                  sanitize_content(Get(data, "content", JStr(<<>>)))
            /\ out.resp.data[1].tags = Get(data, "tags", JList(<<>>))

\* a get of an untouched document created with content and two tags
C5_Witness ==
    /\ out.op = "get" /\ out.id.valid /\ out.id.oid \in DOMAIN pristine
    /\ pristine[out.id.oid] = Full1

\* C6 (as claimed): for a well-formed id that no stored document has, get,
\* delete and an update with a valid title are answered 404, and the store is
\* as before.
C6_Claimed_NotFound ==
    [][(/\ AnsweredAtOnce
        /\ out'.op \in {"get", "update", "delete"}
        /\ out'.id.valid /\ out'.id.oid \notin DOMAIN store
        /\ out'.op = "update" => TitleOk(out'.body))
         => (/\ out'.resp.status = 404 /\ ~out'.resp.success
             /\ store' = store)]_vars

\* C6 (amended): the same, for an update whose content, if any, is a string.
C6_NotFound ==
    [][(/\ AnsweredAtOnce
        /\ out'.op \in {"get", "update", "delete"}
        /\ out'.id.valid /\ out'.id.oid \notin DOMAIN store
        /\ out'.op = "update" => TitleOk(out'.body) /\ ContentIsText(out'.body))
         => (/\ out'.resp.status = 404 /\ ~out'.resp.success
             /\ store' = store)]_vars

\* an update of an id that is not stored was answered 404 while another
\* document was stored
C6_Witness ==
    /\ out.op = "update" /\ out.resp.status = 404
    /\ DOMAIN store # {}

\* C7 (as claimed): a get with a malformed id is answered 404 "Document not
\* found".
C7_Claimed_MalformedGet404 ==
    (out.op = "get" /\ ~out.id.valid) => out.resp = Fail("Document not found", 404)

\* C8 (as claimed): once a delete of an id has succeeded, every later get,
\* update and delete of it is answered 404.
C8_Claimed_DeleteFinal ==
    (out.gone /\ out.op \in {"get", "update", "delete"})
        => (out.resp.status = 404 /\ ~out.resp.success)

\* C8 (amended): once a delete of an id has succeeded the id is never stored
\* again, and every later get and delete of it, and every later update of it
\* that passes validation, is answered 404.
C8_DeleteFinal ==
    /\ \A id \in deleted : id \notin DOMAIN store
    /\ (/\ out.gone
        /\ out.op \in {"get", "update", "delete"}
        /\ out.op = "update" => TitleOk(out.body) /\ ContentIsText(out.body))
         => (out.resp.status = 404 /\ ~out.resp.success)

\* an update of a deleted id is answered 404 after a later create
C8_Witness ==
    /\ out.gone /\ out.op = "update" /\ out.resp.status = 404
    /\ DOMAIN store # {}

\* C9: no step changes the author or the createdAt of a stored document.
C9_AuthorCreatedAtFixed ==
    [][\A id \in DOMAIN store \cap DOMAIN store' :
          /\ store'[id].author = store[id].author
          /\ store'[id].createdAt = store[id].createdAt]_vars

\* an update whose body carries another author than the stored one has been
\* applied
C9_Witness ==
    \E w \in Workers :
        /\ reqs[w].pc = "matched"
        /\ "author" \in DOMAIN reqs[w].body
        /\ reqs[w].id.oid \in DOMAIN store
        /\ store[reqs[w].id.oid].author # reqs[w].body.author

\* C10 (as claimed): the update_one of every successful update leaves the
\* stored updatedAt greater than it was.
C10_Claimed_UpdatedAtIncreases ==
    [][\A w \in Workers :
          (reqs[w].pc = "idle" /\ reqs'[w].pc = "matched")
             => store'[reqs'[w].id.oid].updatedAt > store[reqs'[w].id.oid].updatedAt]_vars

\* C11: every stored document has createdAt <= updatedAt, after its creation
\* and after any number of updates, concurrent ones included.
C11_CreatedBeforeUpdated ==
    \A id \in DOMAIN store : store[id].createdAt <= store[id].updatedAt

\* two updates of one document in flight, the later write carrying a reading
\* older than the clock
C11_Witness ==
    \E id \in DOMAIN store :
        /\ \A w \in Workers : reqs[w].pc = "matched" /\ reqs[w].id = Oid(id)
        /\ store[id].updatedAt < now
        /\ store[id].createdAt <= store[id].updatedAt

\* the ids of the documents a list response carries, in its order
ListedIds == [i \in DOMAIN out.resp.data |-> out.resp.data[i].id]

\* C12: a successful list returns the documents stored at that moment, each
\* exactly once and as stored, none that was deleted, every document's
\* updatedAt greater than or equal to that of the document after it.
C12_ListStoredDescending ==
    (out.op = "list" /\ out.resp.success) =>
        LET d == out.resp.data
        IN  /\ out.resp.status = 200
            /\ {d[i].id : i \in DOMAIN d} = DOMAIN store
            /\ Len(d) = Cardinality(DOMAIN store)
            /\ \A i \in DOMAIN d : <<d[i]>> = serialize_document(find_one(d[i].id))
            /\ \A i \in DOMAIN d : d[i].id \notin deleted
            /\ \A i \in 1..(Len(d) - 1) : d[i].updatedAt >= d[i + 1].updatedAt

\* a list of two documents after a delete, the younger document first because
\* the older one was never updated
C12_Witness ==
    /\ out.op = "list" /\ out.resp.success
    /\ deleted # {}
    /\ Len(out.resp.data) = 2
    /\ out.resp.data[1].id > out.resp.data[2].id
    /\ out.resp.data[1].updatedAt > out.resp.data[2].updatedAt

\* three documents created one after another, then the second updated, and
\* no other write
SecondUpdated ==
    /\ DOMAIN store = {1, 2, 3} /\ nextId = 4 /\ deleted = {}
    /\ DOMAIN pristine = {1, 3}
    /\ \A w \in Workers : reqs[w].pc = "idle"

\* C13 (as claimed): after three creates in sequence and an update of the
\* second, a list returns [second, third, first].
C13_Claimed_SecondThirdFirst ==
    (out.op = "list" /\ out.resp.success /\ SecondUpdated)
        => ListedIds = <<2, 3, 1>>

\* C13: after three creates in sequence and an update of the second, the
\* clock having advanced between the first and the third create and between
\* the third create and the update, a list returns [second, third, first].
C13_SecondThirdFirst ==
    (/\ out.op = "list" /\ out.resp.success /\ SecondUpdated
     /\ store[1].updatedAt # store[3].updatedAt
     /\ store[3].updatedAt # store[2].updatedAt)
        => ListedIds = <<2, 3, 1>>

\* such a list, the second document created at the same reading as the first
C13_Witness ==
    /\ out.op = "list" /\ out.resp.success /\ SecondUpdated
    /\ store[1].updatedAt = store[2].createdAt
    /\ store[1].updatedAt < store[3].updatedAt
    /\ store[3].updatedAt < store[2].updatedAt
    /\ ListedIds = <<2, 3, 1>>

\* C14: every successful create assigns an id that no document created
\* earlier has or had, deleted documents included.
C14_IdNeverReused ==
    [][(out = NoOut /\ out'.op = "create" /\ out'.resp.success) =>
          LET id == out'.resp.data[1].id
          IN  /\ id \notin DOMAIN insertedAt
              /\ id \notin deleted
              /\ id \notin DOMAIN store
              /\ id \in DOMAIN store']_vars

\* a create answered after an earlier document was deleted
C14_Witness ==
    /\ out.op = "create" /\ out.resp.success
    /\ deleted # {}
    /\ out.resp.data[1].id \notin deleted

\* C15: the update_one of an update replaces title, content and tags as a
\* whole: the title of the request, the sanitised content of the request, the
\* tags of the request and not a merge; content or tags the request omits
\* become the empty string or the empty sequence.
C15_UpdateReplaces ==
    [][\A w \in Workers :
          (reqs[w].pc = "idle" /\ reqs'[w].pc = "matched") =>
              LET data == reqs'[w].body
                  doc == store'[reqs'[w].id.oid]
              IN  /\ doc.title = data.title
                  /\ doc.content = sanitize_content(Get(data, "content", JStr(<<>>)))
                  /\ "content" \notin DOMAIN data => doc.content = JStr(<<>>)
                  /\ doc.tags = Get(data, "tags", JList(<<>>))
                  /\ "tags" \notin DOMAIN data => doc.tags = JList(<<>>)]_vars

\* a document created with content and tags, updated by a request that has
\* neither
C15_Witness ==
    \E w \in Workers :
        /\ reqs[w].pc = "matched" /\ reqs[w].body = BlankTitle
        /\ reqs[w].id.oid \in DOMAIN store
        /\ store[reqs[w].id.oid].author = Full1.author
        /\ store[reqs[w].id.oid].content = JStr(<<>>)
        /\ store[reqs[w].id.oid].tags = JList(<<>>)

\* C16: a successful create whose body has no author, content or tags is
\* answered 201 and stores and returns author "Anonymous", content "" and no
\* tags.
C16_CreateDefaults ==
    (/\ out.op = "create" /\ out.resp.success
     /\ DOMAIN out.body \cap {"author", "content", "tags"} = {})
        => /\ out.resp.status = 201
           /\ \A doc \in {out.resp.data[1], store[out.resp.data[1].id]} :
                 /\ doc.author = JStr("Anonymous")
                 /\ doc.content = JStr(<<>>)
                 /\ doc.tags = JList(<<>>)

\* a create with a title only, answered
C16_Witness ==
    /\ out.op = "create" /\ out.body = BlankTitle
    /\ out.resp.status = 201
    /\ out.resp.data[1].author = JStr("Anonymous")

\* C17: every response of the five operations, whatever the request and
\* whatever storage call raised, is success=true with a data field and
\* status 200 (201 for create), or success=false with an error string and
\* status 400, 404 or 500.
C17_UniformEnvelope ==
    out # NoOut =>
        \/ /\ out.resp.success
           /\ out.resp.kind \in {"doc", "null", "list", "id"}
           /\ out.resp.error = ""
           /\ out.resp.status = IF out.op = "create" THEN 201 ELSE 200
        \/ /\ ~out.resp.success
           /\ out.resp.kind = "none"
           /\ out.resp.error # ""
           /\ out.resp.status \in {400, 404, 500}

\* an update answered 500 because the find_one after its update_one raised
C17_Witness ==
    /\ out.op = "update" /\ out.wrote
    /\ ~out.resp.success /\ out.resp.status = 500
    /\ out.resp.error = "PyMongoError"

\* C18 (as claimed): an operation answered success=false has left the store
\* as it was before the operation; an update answered with a storage failure
\* has not had its update_one applied to the document.
C18_Claimed_NoPartialSuccess ==
    [][(out = NoOut /\ out' # NoOut /\ ~out'.resp.success)
          => (store' = store /\ ~out'.wrote)]_vars

\* C19 (as claimed): an update answered 200 carries the updated document: not
\* null, with the requested id, its title, content and tags those this
\* request wrote, whatever updates and deletes of the same id run beside it.
C19_Claimed_UpdateReturnsOwnWrite ==
    (out.op = "update" /\ out.resp.success) =>
        /\ out.resp.kind = "doc"
        /\ out.resp.data[1].id = out.id.oid
        /\ out.resp.data[1].title = out.body.title
        /\ out.resp.data[1].content =
              sanitize_content(Get(out.body, "content", JStr(<<>>)))
        /\ out.resp.data[1].tags = Get(out.body, "tags", JList(<<>>))

\* C20: the title, content, tags and updatedAt of a stored document all come
\* from one request, the one whose write was applied last; concurrent updates
\* never leave a mix of two requests' fields.
C20_LastWriterWins ==
    \A id \in DOMAIN store :
        LET data == lastWrite[id].body
        IN  /\ store[id].title = data.title
            /\ store[id].content = sanitize_content(Get(data, "content", JStr(<<>>)))
            /\ store[id].tags = Get(data, "tags", JList(<<>>))
            /\ store[id].updatedAt = lastWrite[id].t

\* two updates of one document with different bodies, both applied and neither
\* answered yet, the later write carrying the older clock reading
C20_Witness ==
    \E id \in DOMAIN store :
        /\ \A w \in Workers : reqs[w].pc = "matched" /\ reqs[w].id = Oid(id)
        /\ reqs["w1"].body # reqs["w2"].body
        /\ lastWrite[id].body \in {reqs["w1"].body, reqs["w2"].body}
        /\ store[id].title = lastWrite[id].body.title
        /\ store[id].updatedAt < now

\* C21: an update with a valid title, or a delete, whose id is malformed is
\* answered success=false with status 500 and the description of the failure,
\* and leaves the store unchanged.
C21_MalformedIdCaught ==
    [][(/\ out = NoOut /\ out'.op \in {"update", "delete"}
        /\ ~out'.id.valid
        /\ out'.op = "update" => (IsObject(out'.body) /\ TitleOk(out'.body)))
          => /\ ~out'.resp.success
             /\ out'.resp.status = 500
             /\ out'.resp.kind = "none"
             /\ out'.resp.error \in {"InvalidId", "TypeError"}
             /\ store' = store]_vars

\* an update with a title and text content answered for a malformed id while
\* a document is stored
C21_Witness ==
    /\ out.op = "update" /\ ~out.id.valid
    /\ out.body = Full2
    /\ out.resp.status = 500 /\ out.resp.error = "InvalidId"
    /\ store # <<>>

\* C22 (as claimed): sanitize(sanitize(s)) = sanitize(s) for every text s,
\* the content stored being sanitize(s); an update that submits the content
\* the API holds for a document stores that same content again.
C22_Claimed_SanitizerIdempotent ==
    [][/\ \A id \in DOMAIN store' :
            LET s == lastRaw'[id]
            IN  /\ sanitize_content(sanitize_content(s)) = sanitize_content(s)
                /\ store'[id].content = sanitize_content(s)
       /\ \A id \in DOMAIN store :
            (reqs["w1"].pc = "idle" /\ reqs'["w1"].pc = "matched")
                => store'[id].content = store[id].content]_vars

\* C23: an update whose body is an object with the title missing or empty is
\* answered 400 "Title is required" whether its id is stored, not stored or
\* malformed, and no storage call is made for it: the store is untouched and
\* no storage failure can change the answer.
C23_TitleBeforeId ==
    [][(/\ out = NoOut /\ out'.op = "update"
        /\ IsObject(out'.body) /\ TitleMissingOrEmpty(out'.body))
          => /\ ~out'.resp.success
             /\ out'.resp.status = 400
             /\ out'.resp.error = "Title is required"
             /\ ~out'.wrote
             /\ store' = store /\ lastWrite' = lastWrite]_vars

\* an update with an empty title answered 400 for a malformed id
C23_Witness ==
    /\ out.op = "update" /\ ~out.id.valid
    /\ out.body = EmptyTitle
    /\ out.resp.status = 400

\* C24: a create or an update with a valid title whose content is present but
\* not a string is not given the empty content: the sanitizer raises, the
\* answer is success=false with status 500, and nothing is inserted or
\* modified.
C24_NonTextContentRefused ==
    [][(/\ out = NoOut /\ out'.op \in {"create", "update"}
        /\ IsObject(out'.body) /\ TitleOk(out'.body)
        /\ ~ContentIsText(out'.body))
          => /\ ~out'.resp.success
             /\ out'.resp.status = 500
             /\ out'.resp.error = "TypeError"
             /\ ~out'.wrote
             /\ store' = store /\ nextId' = nextId]_vars

\* an update with a null content answered 500 for a stored document
C24_Witness ==
    /\ out.op = "update" /\ out.body = NullContent
    /\ out.id.valid /\ out.id.oid \in DOMAIN store
    /\ out.resp.status = 500 /\ out.resp.error = "TypeError"

\* a request of saveDocument or autoSave is started in this step
SaveStarts == editor.save.st = "none" /\ editor'.save.st = "sent"
AutoStarts == editor.auto.st = "none" /\ editor'.auto.st = "sent"

\* C25 (as claimed): an editor page creates at most one document; saveDocument
\* sends a POST only while no document id is held; once a save has succeeded
\* the page holds the id it returned, and every later save and auto-save is a
\* PUT to that id; autoSave never sends a POST; no save is started while one
\* is in flight.
C25_Claimed_OneDocumentPerSession ==
    [][/\ Cardinality(editor'.created) <= 1
       /\ (SaveStarts /\ editor'.save.method = "POST")
             => editor.currentDocumentId = JNull
       /\ editor'.saved # JNull => editor'.currentDocumentId = editor'.saved
       /\ (SaveStarts /\ editor.saved # JNull)
             => editor'.save = Fetch("PUT", editor.saved)
       /\ AutoStarts
             => /\ editor'.auto.method = "PUT"
                /\ editor.saved # JNull => editor'.auto.id = editor.saved
       /\ editor'.save.st = "sent" /\ editor'.save # editor.save
             => editor.save.st = "none" /\ ~editor.disabled]_vars

====
